---- MODULE Spec2Model ----
(***************************************************************************)
(* Model of pi-gmc-300-logger.py: a main thread that opens the serial      *)
(* channel and identifies the device, and three daemon threads             *)
(* (sync_time_loop, read_battery_voltage_loop, read_cpm_loop) that share   *)
(* the channel `ser`, the lock `serial_lock`, the global                   *)
(* `last_batt_voltage` and the CSV file.                                   *)
(*                                                                         *)
(* Voltages are kept in tenths of a volt (the raw byte), the formatted     *)
(* CSV field in hundredths.  Every byte in the channel's input buffer      *)
(* carries the command the device sent it in answer to.  The device        *)
(* answers a command within the settle delay that follows the write: its   *)
(* reply enters the input buffer with the write, and a lost or cut reply   *)
(* is a shorter one.  The timestamp and the dose-rate column of a row are  *)
(* not modelled.  File operations on the CSV do not fail.                  *)
(***************************************************************************)
EXTENDS Integers, Sequences, FiniteSets, TLC

\* ---------------------------------------------------------------- bounds
MaxCycles == 4        \* polling cycles started in a run, all three loops together
MaxRuns == 2          \* executions of the program on the same file

\* ------------------------------------------------------ program constants
MarkerByte == 170     \* b'\xaa'
CpmMask == 16383      \* 0x3FFF
MaxTenths == 50       \* voltage > 5.0 is rejected
SerialLen == 7        \* ser.read(7)
NewLine == 10         \* readline() stops after b'\n'
Replacement == 65533  \* U+FFFD, decode(errors='replace')
SyncInterval == 1800  \* time.sleep(1800) of sync_time_loop

Procs == {"main", "clock", "batt", "cpm"}
Tasks == {"clock", "batt", "cpm"}
PollCmds == {"SETDATETIME", "GETVOLT", "GETCPM"}
IdentCmds == {"GETVER", "GETSERIAL"}

\* ---------------------------------------------------------------- helpers
Min(a, b) == IF a < b THEN a ELSE b
Take(s, n) == SubSeq(s, 1, Min(n, Len(s)))
Drop(s, n) == SubSeq(s, Min(n, Len(s)) + 1, Len(s))
Tagged(vals, cmd) == [i \in 1..Len(vals) |-> [v |-> vals[i], src |-> cmd]]
Vals(bs) == [i \in 1..Len(bs) |-> bs[i].v]

RECURSIVE BitAnd(_, _)
BitAnd(a, b) ==
  IF a = 0 \/ b = 0 THEN 0
  ELSE (a % 2) * (b % 2) + 2 * BitAnd(a \div 2, b \div 2)

RECURSIVE FromBytesBig(_)
FromBytesBig(vals) ==
  IF vals = <<>> THEN 0
  ELSE FromBytesBig(SubSeq(vals, 1, Len(vals) - 1)) * 256 + vals[Len(vals)]

\* mutant: the 14-bit mask is forgotten
DecodeCpmUnmasked(vals) == FromBytesBig(Take(vals, 2))

\* cpm_value = int.from_bytes(response[:2], byteorder='big') & 0x3FFF
DecodeCpm(vals) == BitAnd(FromBytesBig(Take(vals, 2)), CpmMask)

HexDigit == <<"0","1","2","3","4","5","6","7","8","9","A","B","C","D","E","F">>
Hex2(b) == <<HexDigit[(b \div 16) + 1], HexDigit[(b % 16) + 1]>>
RECURSIVE HexJoin(_)
HexJoin(vals) ==
  IF vals = <<>> THEN <<>> ELSE Hex2(vals[1]) \o HexJoin(Tail(vals))
Unknown == <<"U","n","k","n","o","w","n">>
\* mutant: a short read is formatted too
DecodeSerialLoose(vals) == HexJoin(vals)

\* get_device_serial_number: 7 bytes -> 14 hex characters, else "Unknown"
DecodeSerial(vals) == IF Len(vals) = SerialLen THEN HexJoin(vals) ELSE Unknown

Whitespace == {9, 10, 11, 12, 13, 28, 29, 30, 31, 32, 133, 160}
RECURSIVE LStrip(_)
LStrip(s) == IF s # <<>> /\ s[1] \in Whitespace THEN LStrip(Tail(s)) ELSE s
RECURSIVE RStrip(_)
RStrip(s) ==
  IF s # <<>> /\ s[Len(s)] \in Whitespace
  THEN RStrip(SubSeq(s, 1, Len(s) - 1)) ELSE s
DecodeText(vals) ==
  [i \in 1..Len(vals) |-> IF vals[i] < 128 THEN vals[i] ELSE Replacement]
\* readline().decode('utf-8', errors='replace').strip()
DecodeVersion(vals) == LStrip(RStrip(DecodeText(vals)))

\* ser.readline(): up to and including the first b'\n', or all on timeout
RECURSIVE LineLen(_)
LineLen(bs) ==
  IF bs = <<>> THEN 0
  ELSE IF bs[1].v = NewLine THEN 1 ELSE 1 + LineLen(Tail(bs))

\* f"{batt_voltage:.2f}": hundredths of a volt, from tenths
FormatBatt(tenths) == tenths * 10

\* the digits of n in upper-case hexadecimal, as many as n needs
RECURSIVE ToHex(_)
ToHex(n) ==
  IF n < 16 THEN <<HexDigit[n + 1]>>
  ELSE ToHex(n \div 16) \o <<HexDigit[(n % 16) + 1]>>

\* mutant: the field is not padded to two digits
Fmt02XNoPad(n) == ToHex(n)

\* f"{n:02X}": zero-padded to at least two digits
Fmt02X(n) == IF Len(ToHex(n)) < 2 THEN <<"0">> \o ToHex(n) ELSE ToHex(n)

CmdPrefix == <<"<","S","E","T","D","A","T","E","T","I","M","E">>
CmdSuffix == <<">",">">>
\* set_device_datetime, lines 69-76
SetDateTimeCmd(now) ==
  CmdPrefix \o Fmt02X(now.year % 100) \o Fmt02X(now.month) \o Fmt02X(now.day)
            \o Fmt02X(now.hour) \o Fmt02X(now.minute) \o Fmt02X(now.second)
            \o CmdSuffix

DateTime(y, mo, d, h, mi, sec) ==
  [year |-> y, month |-> mo, day |-> d, hour |-> h, minute |-> mi, second |-> sec]
\* datetime.now() in a run of the whole program
RunTimes == { DateTime(2024, 3, 5, 14, 7, 9) }
\* datetime.now() where the command's format is examined
DaysIn(mo) == IF mo = 2 THEN 28 ELSE IF mo \in {4, 6, 9, 11} THEN 30 ELSE 31
AllTimes ==
  { t \in { DateTime(y, mo, d, h, mi, sec) :
              y \in {1999, 2000, 2024, 2099}, mo \in 1..12, d \in {1, 5, 28, 31},
              h \in {0, 14, 23}, mi \in {0, 7, 59}, sec \in {0, 9, 59} } :
      t.day <= DaysIn(t.month) }

\* ------------------------------------------------------ the device's replies
VerReplies == { <<>>, <<32, 82, 49, 13, 10>> }
SerReplies == { <<1, 2, 3>>, <<0, 1, 171, 255, 16, 9, 240>> }
VoltReplies == { <<>>, <<33>>, <<51>> }
CpmReplies == { <<>>, <<MarkerByte>>, <<193, 40>> }

\* ------------------------------------------------------------- the CSV file
Header == [kind |-> "header", cpm |-> 0, batt |-> 0, serial |-> <<>>, version |-> <<>>]
Row(cpm, batt, serial, version) ==
  [kind |-> "row", cpm |-> cpm, batt |-> batt, serial |-> serial, version |-> version]
OldRow == Row(12, 330, Unknown, <<>>)
NoFile == [exists |-> FALSE, rows |-> <<>>]
InitialFiles == { NoFile, [exists |-> TRUE, rows |-> <<Header, OldRow>>] }

\* a local of main that is not assigned yet
Unset == <<-1>>

VARIABLES
  pc,            \* position of main and of the three threads
  lock,          \* serial_lock: "free" or the thread that holds it
  isOpen,        \* ser.is_open
  inbuf,         \* the channel's input buffer (tagged bytes)
  written,       \* the commands written to the channel so far
  lastBatt,      \* last_batt_voltage, in tenths
  csv,           \* geiger_log.csv
  csv0,          \* geiger_log.csv as it was when the process started
  deviceVersion, \* main's device_version
  deviceSerial,  \* main's device_serial
  battResp,      \* read_battery_voltage_loop's response
  cpmResp,       \* read_cpm_loop's response
  cycles,        \* polling cycles started so far
  battLast,      \* outcome of the latest completed battery cycle
  lastValid,     \* raw byte of the latest accepted battery sample, -1 if none
  polled,        \* completed count polls: with a response of >= 2 bytes, and of fewer
  identWrites,   \* how often GETVER and GETSERIAL were written
  wallClock,     \* what datetime.now() returns
  cmd,           \* set_device_datetime's cmd
  slept,         \* seconds of the clock thread's latest time.sleep, 0 before any
  runs,          \* executions of the program on this file, this one included
  secondRead     \* whether the count cycle's response comes from two reads

vars == <<pc, lock, isOpen, inbuf, written, lastBatt, csv, csv0, deviceVersion,
          deviceSerial, battResp, cpmResp, cycles, battLast,
          lastValid, polled, identWrites, wallClock, cmd, slept, runs, secondRead>>

sent == <<written, identWrites>>
chan == <<inbuf, written, identWrites>>
ident == <<deviceVersion, deviceSerial>>
ghost == <<battLast, lastValid, polled, secondRead>>
env == <<csv0, wallClock, runs>>
clk == <<cmd, slept>>

Init ==
  /\ pc = [p \in Procs |-> IF p = "main" THEN "init" ELSE "unstarted"]
  /\ lock = "free"
  /\ isOpen = FALSE
  /\ inbuf = <<>>
  /\ written = {}
  /\ lastBatt = 0
  /\ csv0 \in InitialFiles
  /\ csv = csv0
  /\ deviceVersion = Unset
  /\ deviceSerial = Unset
  /\ battResp = <<>>
  /\ cpmResp = <<>>
  /\ cycles = 0
  /\ battLast = [kind |-> "none", v |-> 0]
  /\ lastValid = -1
  /\ polled = [two |-> 0, short |-> 0]
  /\ identWrites = [c \in IdentCmds |-> 0]
  /\ wallClock \in RunTimes
  /\ cmd = <<>>
  /\ slept = 0
  /\ runs = 1
  /\ secondRead = FALSE

Goto(p, l) == pc' = [pc EXCEPT ![p] = l]

\* ser.write(cmd): the device's reply to cmd arrives in the input buffer
Write(c, reply) ==
  /\ inbuf' = inbuf \o Tagged(reply, c)
  /\ written' = written \cup {c}
  /\ identWrites' = IF c \in IdentCmds THEN [identWrites EXCEPT ![c] = @ + 1]
                                        ELSE identWrites

\* ------------------------------------------------------------------- main
\* mutant: the file is opened with 'w', not 'x'
InitCsvRewrites(f) == [exists |-> TRUE, rows |-> <<Header>>]

\* initialize_csv: open(filename, 'x') creates the file with the header row;
\* FileExistsError leaves an existing file alone
InitCsv(f) == IF f.exists THEN f ELSE [exists |-> TRUE, rows |-> <<Header>>]

InitializeCsv ==
  /\ pc["main"] = "init"
  /\ csv' = InitCsv(csv)
  /\ Goto("main", "port")
  /\ UNCHANGED <<lock, isOpen, chan, lastBatt, env, ident, battResp, cpmResp, clk, cycles, ghost>>

\* get_serial_port: None ends main
GetSerialPort ==
  /\ pc["main"] = "port"
  /\ \E found \in BOOLEAN : Goto("main", IF found THEN "open" ELSE "exit")
  /\ UNCHANGED <<lock, isOpen, chan, lastBatt, csv, env, ident, battResp, cpmResp, clk, cycles, ghost>>

\* mutant: the clock thread is started right after the channel is opened
OpenSerialStartsClock ==
  /\ pc["main"] = "open"
  /\ \E ok \in BOOLEAN :
       /\ isOpen' = ok
       /\ pc' = [pc EXCEPT !["main"] = IF ok THEN "ver_acquire" ELSE "exit",
                           !["clock"] = IF ok THEN "head" ELSE @]
  /\ UNCHANGED <<lock, chan, lastBatt, csv, env, ident, battResp, cpmResp, clk, cycles, ghost>>

\* mutant: main goes on to identify the device after a failed open
OpenSerialIgnoresFailure ==
  /\ pc["main"] = "open"
  /\ \E ok \in BOOLEAN :
       /\ isOpen' = ok
       /\ Goto("main", "ver_acquire")
  /\ UNCHANGED <<lock, chan, lastBatt, csv, env, ident, battResp, cpmResp, clk, cycles, ghost>>

\* serial.Serial(...): an exception is caught at line 171 and main returns
OpenSerial ==
  /\ pc["main"] = "open"
  /\ \E ok \in BOOLEAN :
       /\ isOpen' = ok
       /\ Goto("main", IF ok THEN "ver_acquire" ELSE "exit")
  /\ UNCHANGED <<lock, chan, lastBatt, csv, env, ident, battResp, cpmResp, clk, cycles, ghost>>

VerAcquire ==
  /\ pc["main"] = "ver_acquire"
  /\ lock = "free"
  /\ lock' = "main"
  /\ Goto("main", "ver_reset")
  /\ UNCHANGED <<isOpen, chan, lastBatt, csv, env, ident, battResp, cpmResp, clk, cycles, ghost>>

\* ser.write(b'\r\n'), no reply; an exception leaves the with block, which
\* releases the lock
VerWriteReset ==
  /\ pc["main"] = "ver_reset"
  /\ \/ /\ Write("RESET", <<>>)
        /\ Goto("main", "ver_query")
        /\ UNCHANGED lock
     \/ /\ lock' = "free"
        /\ Goto("main", "exit")
        /\ UNCHANGED chan
  /\ UNCHANGED <<isOpen, lastBatt, csv, env, ident, battResp, cpmResp, clk, cycles, ghost>>

VerWriteQuery ==
  /\ pc["main"] = "ver_query"
  /\ \/ /\ \E r \in VerReplies : Write("GETVER", r)
        /\ lock' = "free"
        /\ Goto("main", "ver_read")
     \/ /\ lock' = "free"
        /\ Goto("main", "exit")
        /\ UNCHANGED chan
  /\ UNCHANGED <<isOpen, lastBatt, csv, env, ident, battResp, cpmResp, clk, cycles, ghost>>

\* version = ser.readline().decode('utf-8', errors='replace').strip()
VerRead ==
  /\ pc["main"] = "ver_read"
  /\ \/ /\ deviceVersion' = DecodeVersion(Vals(Take(inbuf, LineLen(inbuf))))
        /\ inbuf' = Drop(inbuf, LineLen(inbuf))
        /\ Goto("main", "ser_acquire")
     \/ /\ Goto("main", "exit")
        /\ UNCHANGED <<inbuf, deviceVersion>>
  /\ UNCHANGED <<lock, isOpen, sent, lastBatt, csv, env, deviceSerial, battResp, cpmResp, clk, cycles, ghost>>

SerAcquire ==
  /\ pc["main"] = "ser_acquire"
  /\ lock = "free"
  /\ lock' = "main"
  /\ Goto("main", "ser_query")
  /\ UNCHANGED <<isOpen, chan, lastBatt, csv, env, ident, battResp, cpmResp, clk, cycles, ghost>>

SerWriteQuery ==
  /\ pc["main"] = "ser_query"
  /\ \/ /\ \E r \in SerReplies : Write("GETSERIAL", r)
        /\ lock' = "free"
        /\ Goto("main", "ser_read")
     \/ /\ lock' = "free"
        /\ Goto("main", "exit")
        /\ UNCHANGED chan
  /\ UNCHANGED <<isOpen, lastBatt, csv, env, ident, battResp, cpmResp, clk, cycles, ghost>>

\* data = ser.read(7)
SerRead ==
  /\ pc["main"] = "ser_read"
  /\ \/ /\ deviceSerial' = DecodeSerial(Vals(Take(inbuf, SerialLen)))
        /\ inbuf' = Drop(inbuf, SerialLen)
        /\ Goto("main", "start_clock")
     \/ /\ Goto("main", "exit")
        /\ UNCHANGED <<inbuf, deviceSerial>>
  /\ UNCHANGED <<lock, isOpen, sent, lastBatt, csv, env, deviceVersion, battResp, cpmResp, clk, cycles, ghost>>

\* threading.Thread(target=...).start(), three times, then the idle loop
StartThread(at, t, next) ==
  /\ pc["main"] = at
  /\ pc' = [pc EXCEPT !["main"] = next, ![t] = "head"]
  /\ UNCHANGED <<lock, isOpen, chan, lastBatt, csv, env, ident, battResp, cpmResp, clk, cycles, ghost>>

StartClock == StartThread("start_clock", "clock", "start_batt")
StartBatt == StartThread("start_batt", "batt", "start_cpm")
StartCpm == StartThread("start_cpm", "cpm", "idle")

MainNext ==
  \/ InitializeCsv \/ GetSerialPort \/ OpenSerial
  \/ VerAcquire \/ VerWriteReset \/ VerWriteQuery \/ VerRead
  \/ SerAcquire \/ SerWriteQuery \/ SerRead
  \/ StartClock \/ StartBatt \/ StartCpm

\* --------------------------------------------------------- sync_time_loop
\* The inter-cycle time.sleep of a loop is part of the cycle's last step: a
\* thread that has finished a cycle is back at "head", where the loop
\* condition is read.  Only the clock thread's sleep is recorded.
U_clock == <<isOpen, inbuf, lastBatt, csv, env, ident, battResp, cpmResp, ghost>>

\* while ser.is_open:
ClockHead ==
  /\ pc["clock"] = "head"
  /\ cycles < MaxCycles
  /\ IF isOpen
     THEN /\ Goto("clock", "acquire")
          /\ cycles' = cycles + 1
          /\ cmd' = SetDateTimeCmd(wallClock)
     ELSE /\ Goto("clock", "done")
          /\ UNCHANGED <<cycles, cmd>>
  /\ UNCHANGED <<lock, sent, slept>>
  /\ UNCHANGED U_clock

\* set_device_datetime: with serial_lock:
ClockAcquire ==
  /\ pc["clock"] = "acquire"
  /\ lock = "free"
  /\ lock' = "clock"
  /\ Goto("clock", "write")
  /\ UNCHANGED <<sent, cycles, clk>>
  /\ UNCHANGED U_clock

\* mutant: the sync clears the input buffer, as the polling loops do
ClockWriteClears ==
  /\ pc["clock"] = "write"
  /\ lock' = "free"
  /\ \/ /\ written' = written \cup {"SETDATETIME"}
        /\ Goto("clock", "head")
        /\ slept' = SyncInterval
        /\ UNCHANGED identWrites
     \/ /\ Goto("clock", "dead")
        /\ UNCHANGED <<sent, slept>>
  /\ cmd' = <<>>
  /\ inbuf' = <<>>
  /\ UNCHANGED cycles
  /\ UNCHANGED <<isOpen, lastBatt, csv, env, ident, battResp, cpmResp, ghost>>

\* ser.write(cmd.encode()) and the end of the with block, then time.sleep(1800);
\* nothing catches an exception of the write: it ends the thread
ClockWrite ==
  /\ pc["clock"] = "write"
  /\ lock' = "free"
  /\ \/ /\ written' = written \cup {"SETDATETIME"}
        /\ Goto("clock", "head")
        /\ slept' = SyncInterval
        /\ UNCHANGED identWrites
     \/ /\ Goto("clock", "dead")
        /\ UNCHANGED <<sent, slept>>
  /\ cmd' = <<>>
  /\ UNCHANGED cycles
  /\ UNCHANGED U_clock

ClockNext == ClockHead \/ ClockAcquire \/ ClockWrite

\* ---------------------------------------------- read_battery_voltage_loop
U_batt == <<isOpen, csv, env, ident, cpmResp, clk, polled, secondRead>>

\* mutant: an empty read leaves the stored value as it is
BattStoreKeepsOnShort(resp) ==
  IF Len(resp) = 1
  THEN IF resp[1].v > MaxTenths THEN 0 ELSE resp[1].v
  ELSE lastBatt

\* mutant: the comparison is >= 5.0, so 5.0 V itself is rejected
BattStoreOffByOne(resp) ==
  IF Len(resp) = 1
  THEN IF resp[1].v >= MaxTenths THEN 0 ELSE resp[1].v
  ELSE 0

\* what lines 95-106 assign to last_batt_voltage, from the response read
BattStore(resp) ==
  IF Len(resp) = 1
  THEN IF resp[1].v > MaxTenths THEN 0 ELSE resp[1].v
  ELSE 0

\* mutant: a channel error keeps the previous value
BattOnErrorKeeps(prev) == prev

\* what the except clause (line 109) assigns to last_batt_voltage
BattOnError(prev) == 0

\* outcome of a completed cycle, from the response read
BattOutcome(resp) ==
  IF Len(resp) # 1 THEN [kind |-> "short", v |-> 0]
  ELSE IF resp[1].v <= MaxTenths THEN [kind |-> "ok", v |-> resp[1].v]
  ELSE [kind |-> "range", v |-> 0]

BattHead ==
  /\ pc["batt"] = "head"
  /\ cycles < MaxCycles
  /\ IF isOpen
     THEN Goto("batt", "clear") /\ cycles' = cycles + 1
     ELSE Goto("batt", "done") /\ UNCHANGED cycles
  /\ UNCHANGED <<lock, chan, lastBatt, battResp, battLast, lastValid>>
  /\ UNCHANGED U_batt

\* ser.reset_input_buffer(), outside the lock
BattClear ==
  /\ pc["batt"] = "clear"
  /\ \/ inbuf' = <<>> /\ Goto("batt", "acquire")
     \/ UNCHANGED inbuf /\ Goto("batt", "except")
  /\ UNCHANGED <<lock, sent, lastBatt, battResp, cycles, battLast, lastValid>>
  /\ UNCHANGED U_batt

\* with serial_lock:
BattAcquire ==
  /\ pc["batt"] = "acquire"
  /\ lock = "free"
  /\ lock' = "batt"
  /\ Goto("batt", "write")
  /\ UNCHANGED <<chan, lastBatt, battResp, cycles, battLast, lastValid>>
  /\ UNCHANGED U_batt

\* mutant: acquire and release without `with`, so that an exception of the
\* write skips the release
BattWriteKeepsLock ==
  /\ pc["batt"] = "write"
  /\ \/ /\ \E r \in VoltReplies : Write("GETVOLT", r)
        /\ lock' = "free"
        /\ Goto("batt", "read")
     \/ /\ Goto("batt", "except")
        /\ UNCHANGED <<lock, chan>>
  /\ UNCHANGED <<lastBatt, battResp, cycles, battLast, lastValid>>
  /\ UNCHANGED U_batt

\* ser.write(b'<GETVOLT>>') and the end of the with block
BattWrite ==
  /\ pc["batt"] = "write"
  /\ lock' = "free"
  /\ \/ /\ \E r \in VoltReplies : Write("GETVOLT", r)
        /\ Goto("batt", "read")
     \/ /\ Goto("batt", "except")
        /\ UNCHANGED chan
  /\ UNCHANGED <<lastBatt, battResp, cycles, battLast, lastValid>>
  /\ UNCHANGED U_batt

\* time.sleep(0.5); response = ser.read(1), outside the lock
BattRead ==
  /\ pc["batt"] = "read"
  /\ \/ /\ battResp' = Take(inbuf, 1)
        /\ inbuf' = Drop(inbuf, 1)
        /\ Goto("batt", "decode")
     \/ /\ Goto("batt", "except")
        /\ UNCHANGED <<inbuf, battResp>>
  /\ UNCHANGED <<lock, sent, lastBatt, cycles, battLast, lastValid>>
  /\ UNCHANGED U_batt

\* lines 95-106, then time.sleep(60)
BattDecode ==
  /\ pc["batt"] = "decode"
  /\ lastBatt' = BattStore(battResp)
  /\ battLast' = BattOutcome(battResp)
  /\ lastValid' = IF BattOutcome(battResp).kind = "ok" THEN battResp[1].v ELSE lastValid
  /\ battResp' = <<>>
  /\ Goto("batt", "head")
  /\ UNCHANGED <<lock, chan, cycles>>
  /\ UNCHANGED U_batt

\* mutant: the handler leaves the loop, as read_cpm_loop's does
BattExceptBreaks ==
  /\ pc["batt"] = "except"
  /\ lastBatt' = 0
  /\ battLast' = [kind |-> "error", v |-> 0]
  /\ Goto("batt", "done")
  /\ UNCHANGED <<lock, chan, battResp, cycles, lastValid>>
  /\ UNCHANGED U_batt

\* except Exception: last_batt_voltage = 0.0, then time.sleep(60)
BattExcept ==
  /\ pc["batt"] = "except"
  /\ lastBatt' = BattOnError(lastBatt)
  /\ battLast' = [kind |-> "error", v |-> 0]
  /\ Goto("batt", "head")
  /\ UNCHANGED <<lock, chan, battResp, cycles, lastValid>>
  /\ UNCHANGED U_batt

BattNext ==
  \/ BattHead \/ BattClear \/ BattAcquire \/ BattWrite
  \/ BattRead \/ BattDecode \/ BattExcept

\* ------------------------------------------------------------ read_cpm_loop
U_cpm == <<isOpen, lastBatt, env, ident, battResp, clk, battLast, lastValid>>

\* mutant: the row does not carry the serial number read at startup
CpmRowNoSerial(resp, batt, serial, version) ==
  Row(DecodeCpm(Vals(resp)), FormatBatt(batt), Unknown, version)

\* the row log_data appends (lines 128-132, 34-39)
CpmRow(resp, batt, serial, version) ==
  Row(DecodeCpm(Vals(resp)), FormatBatt(batt), serial, version)

\* mutant: a single byte is logged too
LogsAnyByte(resp) == resp # <<>>

\* lines 125-126: if response: if len(response) >= 2:
Logs(resp) == resp # <<>> /\ Len(resp) >= 2

CpmHead ==
  /\ pc["cpm"] = "head"
  /\ cycles < MaxCycles
  /\ IF isOpen
     THEN Goto("cpm", "clear") /\ cycles' = cycles + 1
     ELSE Goto("cpm", "done") /\ UNCHANGED cycles
  /\ secondRead' = FALSE
  /\ UNCHANGED <<lock, chan, csv, cpmResp, polled>>
  /\ UNCHANGED U_cpm

\* ser.reset_input_buffer(), outside the lock
CpmClear ==
  /\ pc["cpm"] = "clear"
  /\ \/ inbuf' = <<>> /\ Goto("cpm", "acquire")
     \/ UNCHANGED inbuf /\ Goto("cpm", "except")
  /\ UNCHANGED <<lock, sent, csv, cpmResp, cycles, polled, secondRead>>
  /\ UNCHANGED U_cpm

\* with serial_lock:
CpmAcquire ==
  /\ pc["cpm"] = "acquire"
  /\ lock = "free"
  /\ lock' = "cpm"
  /\ Goto("cpm", "write")
  /\ UNCHANGED <<chan, csv, cpmResp, cycles, polled, secondRead>>
  /\ UNCHANGED U_cpm

\* ser.write(b'<GETCPM>>') and the end of the with block
CpmWrite ==
  /\ pc["cpm"] = "write"
  /\ lock' = "free"
  /\ \/ /\ \E r \in CpmReplies : Write("GETCPM", r)
        /\ Goto("cpm", "read")
     \/ /\ Goto("cpm", "except")
        /\ UNCHANGED chan
  /\ UNCHANGED <<csv, cpmResp, cycles, polled, secondRead>>
  /\ UNCHANGED U_cpm

\* mutant: the extra read is issued after every first read
CpmReadAlwaysExtra ==
  /\ pc["cpm"] = "read"
  /\ \/ /\ cpmResp' = Take(inbuf, 2)
        /\ inbuf' = Drop(inbuf, 2)
        /\ Goto("cpm", "read2")
     \/ /\ Goto("cpm", "except")
        /\ UNCHANGED <<inbuf, cpmResp>>
  /\ UNCHANGED <<lock, sent, csv, cycles, polled, secondRead>>
  /\ UNCHANGED U_cpm

\* time.sleep(2); response = ser.read(2), outside the lock
CpmRead ==
  /\ pc["cpm"] = "read"
  /\ \/ /\ cpmResp' = Take(inbuf, 2)
        /\ inbuf' = Drop(inbuf, 2)
        /\ Goto("cpm", IF Len(Take(inbuf, 2)) < 2 THEN "read2" ELSE "decode")
     \/ /\ Goto("cpm", "except")
        /\ UNCHANGED <<inbuf, cpmResp>>
  /\ UNCHANGED <<lock, sent, csv, cycles, polled, secondRead>>
  /\ UNCHANGED U_cpm

\* extra = ser.read(1); response += extra
CpmRead2 ==
  /\ pc["cpm"] = "read2"
  /\ \/ /\ cpmResp' = cpmResp \o Take(inbuf, 1)
        /\ inbuf' = Drop(inbuf, 1)
        /\ Goto("cpm", "decode")
        /\ secondRead' = TRUE
     \/ /\ Goto("cpm", "except")
        /\ UNCHANGED <<inbuf, cpmResp, secondRead>>
  /\ UNCHANGED <<lock, sent, csv, cycles, polled>>
  /\ UNCHANGED U_cpm

\* mutant: a poll that logs nothing resets the shared battery value
CpmDecodeClobbers ==
  /\ pc["cpm"] = "decode"
  /\ IF Logs(cpmResp)
     THEN /\ csv' = [csv EXCEPT !.rows =
                       Append(@, CpmRow(cpmResp, lastBatt, deviceSerial, deviceVersion))]
          /\ UNCHANGED lastBatt
     ELSE /\ lastBatt' = 0
          /\ UNCHANGED csv
  /\ polled' = IF Len(cpmResp) >= 2 THEN [polled EXCEPT !.two = @ + 1]
                                    ELSE [polled EXCEPT !.short = @ + 1]
  /\ cpmResp' = <<>>
  /\ Goto("cpm", "head")
  /\ UNCHANGED <<lock, chan, cycles>>
  /\ UNCHANGED <<isOpen, env, ident, battResp, clk, battLast, lastValid, secondRead>>

\* lines 125-139: a row is logged when the response has at least 2 bytes;
\* then time.sleep(4)
CpmDecode ==
  /\ pc["cpm"] = "decode"
  /\ IF Logs(cpmResp)
     THEN csv' = [csv EXCEPT !.rows =
                    Append(@, CpmRow(cpmResp, lastBatt, deviceSerial, deviceVersion))]
     ELSE UNCHANGED csv
  /\ polled' = IF Len(cpmResp) >= 2 THEN [polled EXCEPT !.two = @ + 1]
                                    ELSE [polled EXCEPT !.short = @ + 1]
  /\ cpmResp' = <<>>
  /\ Goto("cpm", "head")
  /\ UNCHANGED <<lock, chan, cycles, secondRead>>
  /\ UNCHANGED U_cpm

\* mutant: the handler goes on with the loop, as the battery loop's does
CpmExceptContinues ==
  /\ pc["cpm"] = "except"
  /\ Goto("cpm", "head")
  /\ UNCHANGED <<lock, chan, csv, cpmResp, cycles, polled, secondRead>>
  /\ UNCHANGED U_cpm

\* except Exception: break
CpmExcept ==
  /\ pc["cpm"] = "except"
  /\ Goto("cpm", "done")
  /\ UNCHANGED <<lock, chan, csv, cpmResp, cycles, polled, secondRead>>
  /\ UNCHANGED U_cpm

CpmNext ==
  \/ CpmHead \/ CpmClear \/ CpmAcquire \/ CpmWrite
  \/ CpmRead \/ CpmRead2 \/ CpmDecode \/ CpmExcept

Next == MainNext \/ ClockNext \/ BattNext \/ CpmNext
Spec == Init /\ [][Next]_vars

\* A thread that waits for serial_lock gets it: the lock is held for the time
\* of one write, and a thread that has released it sleeps (0.5 s at least)
\* before it asks again.  A thread in its with block goes on.
LiveInit == Init /\ csv0 = NoFile
LiveSpec ==
  /\ LiveInit /\ [][Next]_vars
  /\ SF_vars(ClockAcquire) /\ SF_vars(BattAcquire) /\ SF_vars(CpmAcquire)
  /\ WF_vars(ClockWrite) /\ WF_vars(BattWrite) /\ WF_vars(CpmWrite)

\* ------------------------------------------- the loops on their own inputs
\* main has identified the device and started the three threads (line 167)
Started ==
  /\ lock = "free"
  /\ isOpen = TRUE
  /\ lastBatt = 0
  /\ csv0 \in InitialFiles
  /\ csv = InitCsv(csv0)
  /\ deviceVersion = DecodeVersion(<<32, 82, 49, 13, 10>>)
  /\ deviceSerial = DecodeSerial(<<0, 1, 171, 255, 16, 9, 240>>)
  /\ battResp = <<>>
  /\ cpmResp = <<>>
  /\ battLast = [kind |-> "none", v |-> 0]
  /\ lastValid = -1
  /\ polled = [two |-> 0, short |-> 0]
  /\ identWrites = [c \in IdentCmds |-> 1]
  /\ cmd = <<>>
  /\ slept = 0
  /\ runs = 1
  /\ secondRead = FALSE

\* the program is stopped and run again: everything starts afresh but the
\* file, which is as the earlier execution left it
Restart ==
  /\ runs < MaxRuns
  /\ pc["main"] # "init"
  /\ runs' = runs + 1
  /\ csv0' = csv
  /\ pc' = [p \in Procs |-> IF p = "main" THEN "init" ELSE "unstarted"]
  /\ lock' = "free"
  /\ isOpen' = FALSE
  /\ inbuf' = <<>>
  /\ written' = {}
  /\ lastBatt' = 0
  /\ deviceVersion' = Unset
  /\ deviceSerial' = Unset
  /\ battResp' = <<>>
  /\ cpmResp' = <<>>
  /\ cycles' = 0
  /\ battLast' = [kind |-> "none", v |-> 0]
  /\ lastValid' = -1
  /\ polled' = [two |-> 0, short |-> 0]
  /\ identWrites' = [c \in IdentCmds |-> 0]
  /\ cmd' = <<>>
  /\ slept' = 0
  /\ secondRead' = FALSE
  /\ UNCHANGED <<csv, wallClock>>

\* executions of main and the count thread, starting without a file
RunsInit == Init /\ csv0 = NoFile
SpecRuns == RunsInit /\ [][MainNext \/ CpmNext \/ Restart]_vars

\* the clock thread has been started, at any of the times of AllTimes
DateTimeInit ==
  /\ Started
  /\ pc = [p \in Procs |-> IF p = "main" THEN "idle" ELSE "head"]
  /\ inbuf = <<>>
  /\ written = IdentCmds
  /\ cycles = 0
  /\ wallClock \in AllTimes

SpecDateTime == DateTimeInit /\ [][ClockNext]_vars

\* any reply of at most one byte to <GETVOLT>>
ByteReplies == { <<>> } \cup { <<b>> : b \in 0..255 }

\* the battery thread has written its first <GETVOLT>> (line 92) and the
\* device has answered; the other threads have not run yet
BatteryInit ==
  /\ Started
  /\ pc = [p \in Procs |-> CASE p = "main" -> "idle"
                             [] p = "batt" -> "read"
                             [] OTHER -> "head"]
  /\ \E r \in ByteReplies : inbuf = Tagged(r, "GETVOLT")
  /\ written = IdentCmds \cup {"GETVOLT"}
  /\ cycles = 1
  /\ wallClock \in RunTimes

SpecBattery == BatteryInit /\ [][BattNext]_vars

\* ================================================================ claims
\* rows of the file once initialize_csv has run
BaseLen == IF csv0.exists THEN Len(csv0.rows) ELSE 1
NewRows == SubSeq(csv.rows, BaseLen + 1, Len(csv.rows))
\* this step is the count task appending a row
Appends == pc["cpm"] = "decode" /\ Len(csv'.rows) = Len(csv.rows) + 1
LastRow(f) == f.rows[Len(f.rows)]
\* task t has written its command and not yet read the whole reply
AwaitsReply(t) == pc[t] \in {"read", "read2"}
\* this step is task u clearing the input buffer, or writing a command
Clears(u) == pc[u] = "clear" /\ pc'[u] = "acquire"
Writes(u) == pc[u] = "write" /\ pc'[u] \in {"read", "head"}

\* C1: between a task's command write and its read of the reply, no other
\* task writes a command to the channel or clears the input buffer.
C1_ExchangeAtomic ==
  [][\A t \in {"batt", "cpm"} : \A u \in Tasks \ {t} :
       AwaitsReply(t) => ~(Clears(u) \/ Writes(u))]_vars

\* C2: the bytes a task reads as its reply are bytes the device sent in
\* answer to that task's own command.
C2_OwnReplyOnly ==
  /\ \A i \in 1..Len(battResp) : battResp[i].src = "GETVOLT"
  /\ \A i \in 1..Len(cpmResp) : cpmResp[i].src = "GETCPM"

\* C3 (as claimed): a row carries the most recent valid battery sample, and
\* 0.00 only if no sample ever succeeded or the sample was out of range.
C3_MostRecentValid ==
  [][Appends =>
       LastRow(csv').batt =
         IF lastValid = -1 \/ battLast.kind = "range" THEN 0
         ELSE FormatBatt(lastValid)]_vars

\* C3 (amended): a row carries the outcome of the most recently completed
\* battery cycle: byte/10 if that cycle read one byte <= 50, and 0.00 if no
\* cycle has completed or the latest one failed (short read, byte > 50,
\* exception), whatever was sampled before.
C3_LatestCycleOutcome ==
  [][Appends =>
       LastRow(csv').batt =
         IF battLast.kind = "ok" THEN battLast.v * 10 ELSE 0]_vars

\* C3 witness: rows logged after an accepted sample and after a failed one
C3_Witness ==
  /\ Len(NewRows) = 2
  /\ NewRows[1].batt = 330
  /\ NewRows[2].batt = 0
  /\ lastValid = 33
  /\ battLast.kind \in {"short", "error"}

\* C4: only the battery task changes the shared battery value; every step of
\* the clock task, the count task and main leaves it unchanged.
C4_SingleWriter ==
  [][lastBatt' # lastBatt =>
       /\ pc["batt"] \in {"decode", "except"}
       /\ pc'["batt"] = "head"
       /\ \A p \in Procs \ {"batt"} : pc'[p] = pc[p]]_vars

\* C4 witness: a stored sample has outlived a clock sync and count polls
\* with and without a row
C4_Witness ==
  /\ lastBatt = 33
  /\ "SETDATETIME" \in written
  /\ polled.two >= 1
  /\ polled.short >= 1

\* C5: the version exchange completes before the serial-number query is
\* written, and both exchanges complete before any polling task is started
\* or any SETDATETIME, GETVOLT or GETCPM command is written.
C5_IdentifyFirst ==
  /\ deviceVersion # Unset => "GETVER" \in written
  /\ "GETSERIAL" \in written => deviceVersion # Unset
  /\ deviceSerial # Unset => "GETSERIAL" \in written
  /\ (written \cap PollCmds # {} \/ \E t \in Tasks : pc[t] # "unstarted") =>
       /\ deviceVersion # Unset
       /\ deviceSerial # Unset
       /\ pc["main"] \in {"start_batt", "start_cpm", "idle"}

\* C5 witness: all three tasks run and each has written its command
C5_Witness ==
  /\ pc["main"] = "idle"
  /\ PollCmds \subseteq written
  /\ deviceSerial # Unknown

C7_BatteryKeepsPolling ==
  /\ [](isOpen => pc["batt"] \notin {"done", "dead"})
  /\ [][/\ pc["batt"] = "except" => pc'["batt"] \in {"except", "head"}
        /\ pc["batt"] = "decode" => pc'["batt"] \in {"decode", "head"}
        /\ (pc["batt"] = "head" /\ isOpen) => pc'["batt"] \in {"head", "clear"}
        /\ pc["batt"] = "clear" => pc'["batt"] \in {"clear", "acquire", "except"}
        /\ pc["batt"] = "acquire" => pc'["batt"] \in {"acquire", "write"}]_vars

\* C7 witness: GETVOLT has been written again after a failed cycle
C7_Witness ==
  /\ battLast.kind \in {"short", "range", "error"}
  /\ pc["batt"] = "read"

\* C8: a failed write of the SETDATETIME command never ends the clock task.
C8_ClockSurvivesWriteError == pc["clock"] # "dead"

\* C9: the rows appended in this run are as many as the completed count
\* polls whose response had at least 2 bytes; polls with a shorter response
\* (marker byte, other single byte, empty) append nothing.
C9_RowPerFullPoll ==
  pc["main"] # "init" => Len(csv.rows) = BaseLen + polled.two

\* C9 witness: one poll logged a row, another ended with fewer than 2 bytes
C9_Witness ==
  /\ polled.two = 1
  /\ polled.short = 1
  /\ Len(NewRows) = 1

\* C10: the logged count is the first two response bytes, big-endian, modulo
\* 2^14, and every row's count lies in 0..16383.
C10_CountMasked ==
  /\ [][Appends =>
          LastRow(csv').cpm = (cpmResp[1].v * 256 + cpmResp[2].v) % 16384]_vars
  /\ [](\A i \in 1..Len(csv.rows) : csv.rows[i].cpm \in 0..16383)

\* C10 witness: the reply C1 28 is logged as 0x0128
C10_Witness ==
  /\ Len(NewRows) >= 1
  /\ NewRows[1].cpm = 296

\* C11: a battery byte b in 0..50 is accepted and the shared value becomes
\* b/10; a byte in 51..255 is rejected and never stored; the shared value
\* never exceeds 5.0 V.
C11_BatteryRange ==
  /\ [](lastBatt \in 0..50)
  /\ [][(pc["batt"] = "decode" /\ pc'["batt"] = "head" /\ Len(battResp) = 1) =>
          /\ battResp[1].v \in 0..50 => lastBatt' = battResp[1].v
          /\ battResp[1].v \in 51..255 =>
                lastBatt' # battResp[1].v /\ lastBatt' = 0]_vars

\* C11 witness: the byte 50 has been read and 5.0 V is the shared value
C11_Witness ==
  /\ lastBatt = 50
  /\ battLast = [kind |-> "ok", v |-> 50]

\* C12: GETVER and GETSERIAL are each written at most once in a run; the
\* version and serial number, once obtained, never change; and every row
\* appended carries exactly these two values.
C12_IdentityOnce ==
  /\ [](\A c \in IdentCmds : identWrites[c] <= 1)
  /\ [](\A i \in 1..Len(NewRows) :
          /\ deviceSerial # Unset /\ deviceVersion # Unset
          /\ NewRows[i].serial = deviceSerial
          /\ NewRows[i].version = deviceVersion)
  /\ [][/\ deviceSerial # Unset => deviceSerial' = deviceSerial
        /\ deviceVersion # Unset => deviceVersion' = deviceVersion]_vars

\* C12 witness: two rows carry the serial number and version read at startup
C12_Witness ==
  /\ Len(NewRows) = 2
  /\ NewRows[1].serial = HexJoin(<<0, 1, 171, 255, 16, 9, 240>>)
  /\ NewRows[2].serial = NewRows[1].serial
  /\ NewRows[1].version = <<82, 49>>
  /\ NewRows[2].version = <<82, 49>>
  /\ identWrites = [c \in IdentCmds |-> 1]

\* the value of an upper-case hexadecimal digit
UpperHex == {"0","1","2","3","4","5","6","7","8","9","A","B","C","D","E","F"}
HexValue(ch) == CHOOSE i \in 0..15 : HexDigit[i + 1] = ch
\* this step is the serial-number read returning (not raising)
SerialReturns == pc["main"] = "ser_read" /\ pc'["main"] = "start_clock"

\* C13: a serial-number read that returns fewer than 7 bytes yields
\* "Unknown" and startup goes on: from there main starts the three tasks and
\* never exits, and every row carries "Unknown".  A read of exactly 7 bytes
\* yields 14 upper-case hex characters, two per byte, high digit first.
C13_SerialFallback ==
  /\ [][SerialReturns =>
          IF Len(inbuf) < 7
          THEN deviceSerial' = <<"U","n","k","n","o","w","n">>
          ELSE /\ Len(deviceSerial') = 14
               /\ \A i \in 1..7 :
                    /\ deviceSerial'[2 * i - 1] \in UpperHex
                    /\ deviceSerial'[2 * i] \in UpperHex
                    /\ 16 * HexValue(deviceSerial'[2 * i - 1])
                         + HexValue(deviceSerial'[2 * i]) = inbuf[i].v]_vars
  /\ [][pc["main"] \in {"start_clock", "start_batt", "start_cpm", "idle"} =>
          pc'["main"] \in {"start_clock", "start_batt", "start_cpm", "idle"}]_vars
  /\ [](pc["main"] = "idle" => \A t \in Tasks : pc[t] # "unstarted")
  /\ [](deviceSerial = <<"U","n","k","n","o","w","n">> =>
          \A i \in 1..Len(NewRows) :
             NewRows[i].serial = <<"U","n","k","n","o","w","n">>)
  \* the reply 00 01 AB FF 10 09 F0 reads as "0001ABFF1009F0"
  /\ [](deviceSerial \in
          {Unset, <<"U","n","k","n","o","w","n">>,
           <<"0","0","0","1","A","B","F","F","1","0","0","9","F","0">>})

\* C13 witness: after a 3-byte serial reply the tasks run and a row with
\* "Unknown" is in the file
C13_Witness ==
  /\ deviceSerial = <<"U","n","k","n","o","w","n">>
  /\ pc["main"] = "idle"
  /\ Len(NewRows) >= 1
  /\ NewRows[1].serial = <<"U","n","k","n","o","w","n">>
  /\ "GETVOLT" \in written

\* this step is a step of the clock task
ClockStep == pc["clock"] # "unstarted" /\ pc'["clock"] # pc["clock"]

\* C14: a clock-sync cycle takes the lock, writes one SETDATETIME command
\* while holding it and goes back to the loop head; no step of the clock task
\* reads from the channel or clears its input buffer, changes the shared
\* battery value or the file.  The task's first cycle starts without a
\* sleep, every later one after a sleep of 1800 s.
C14_SyncFireAndForget ==
  /\ [][ClockStep =>
          /\ inbuf' = inbuf
          /\ battResp' = battResp /\ cpmResp' = cpmResp
          /\ lastBatt' = lastBatt
          /\ csv' = csv]_vars
  /\ [][(ClockStep /\ written' # written) =>
          /\ written' = written \cup {"SETDATETIME"}
          /\ pc["clock"] = "write" /\ pc'["clock"] = "head"
          /\ lock = "clock" /\ lock' = "free"]_vars
  /\ [][/\ pc["clock"] = "head" => pc'["clock"] \in {"head", "acquire", "done"}
        /\ pc["clock"] = "acquire" => pc'["clock"] \in {"acquire", "write"}
        /\ pc["clock"] = "write" => pc'["clock"] \in {"write", "head", "dead"}
        /\ (pc["clock"] = "write" /\ pc'["clock"] = "head") =>
              "SETDATETIME" \in written']_vars
  /\ [][(pc["clock"] = "unstarted" /\ pc'["clock"] # "unstarted") =>
          pc'["clock"] = "head" /\ slept' = 0]_vars
  /\ [][(pc["clock"] = "head" /\ pc'["clock"] = "acquire") =>
          slept = IF "SETDATETIME" \in written THEN 1800 ELSE 0]_vars

\* C14 witness: a second sync has been written while the count task's reply
\* waited in the input buffer and a battery sample was stored
C14_Witness ==
  /\ pc["clock"] = "head"
  /\ cycles = 4
  /\ slept = 1800
  /\ pc["cpm"] = "read"
  /\ Len(inbuf) = 2
  /\ lastBatt = 33

\* C15: while the channel is not open (no port found, open failed, or not
\* yet tried) no command has been written, the device is not identified, no
\* task is started and no row is appended; main ends right after a missing
\* port or a failed open and stays ended; the channel is opened only by
\* main's open step, which main reaches at most once.
C15_AbortWithoutChannel ==
  /\ [](~isOpen =>
          /\ written = {} /\ inbuf = <<>>
          /\ deviceVersion = Unset /\ deviceSerial = Unset
          /\ \A t \in Tasks : pc[t] = "unstarted"
          /\ NewRows = <<>>
          /\ pc["main"] \in {"init", "port", "open", "exit"})
  /\ [][/\ (pc["main"] = "open" /\ pc'["main"] # "open" /\ ~isOpen') =>
              pc'["main"] = "exit"
        /\ (pc["main"] = "port" /\ pc'["main"] # "port") =>
              pc'["main"] \in {"open", "exit"}
        /\ pc["main"] = "exit" => pc'["main"] = "exit"
        /\ isOpen' # isOpen =>
              pc["main"] = "open" /\ pc'["main"] = "ver_acquire" /\ isOpen'
        /\ (pc'["main"] = "open" /\ pc["main"] # "open") =>
              pc["main"] = "port" /\ ~isOpen
        /\ (pc'["main"] = "port" /\ pc["main"] # "port") => pc["main"] = "init"
        /\ pc'["main"] = "init" => pc["main"] = "init"]_vars

\* C15 witness: main has ended without a channel; the file exists
C15_Witness ==
  /\ pc["main"] = "exit"
  /\ ~isOpen
  /\ csv.exists
  /\ csv0 = NoFile

\* the rows of file f that are header rows
HeaderRows(f) == { i \in 1..Len(f.rows) : f.rows[i].kind = "header" }
\* this step is initialize_csv
Initializes == pc["main"] = "init" /\ pc'["main"] = "port"

\* C16: initialize_csv creates a missing file with exactly the header row and
\* leaves an existing file as it is, so initializing twice is the same as
\* once; over any executions and appends, the file, once it exists, has
\* exactly one header row, its first row.
C16_InitIdempotent ==
  /\ [][Initializes =>
          /\ csv.exists => csv' = csv
          /\ ~csv.exists => csv'.exists /\ Len(csv'.rows) = 1
                               /\ HeaderRows(csv') = {1}
          /\ InitCsv(csv') = csv']_vars
  /\ [](pc["main"] # "init" => csv.exists)
  /\ [](csv.exists => HeaderRows(csv) = {1})

\* C16 witness: the second execution has initialized the file the first one
\* left with a row, and has appended another row
C16_Witness ==
  /\ runs = 2
  /\ Len(csv0.rows) = 2
  /\ Len(csv.rows) = 3
  /\ csv.rows[2].kind = "row" /\ csv.rows[3].kind = "row"

\* the value of the k-th two-digit field of the command c
Field(c, k) == 16 * HexValue(c[11 + 2 * k]) + HexValue(c[12 + 2 * k])

\* C17: the command built by set_device_datetime is "<SETDATETIME", twelve
\* upper-case hex digits and ">>", 26 characters in all; the digits are, two
\* by two, year mod 100, month, day, hour, minute and second; for
\* 2024-03-05 14:07:09 they are 18 03 05 0E 07 09.
C17_CommandFormat ==
  /\ pc["clock"] \in {"acquire", "write"} => cmd # <<>>
  /\ cmd # <<>> =>
       /\ Len(cmd) = 26
       /\ SubSeq(cmd, 1, 12) = <<"<","S","E","T","D","A","T","E","T","I","M","E">>
       /\ SubSeq(cmd, 25, 26) = <<">",">">>
       /\ \A i \in 13..24 : cmd[i] \in UpperHex
       /\ Field(cmd, 1) = wallClock.year % 100
       /\ Field(cmd, 2) = wallClock.month
       /\ Field(cmd, 3) = wallClock.day
       /\ Field(cmd, 4) = wallClock.hour
       /\ Field(cmd, 5) = wallClock.minute
       /\ Field(cmd, 6) = wallClock.second
       /\ wallClock = [year |-> 2024, month |-> 3, day |-> 5,
                       hour |-> 14, minute |-> 7, second |-> 9] =>
            SubSeq(cmd, 13, 24) = <<"1","8","0","3","0","5","0","E","0","7","0","9">>

\* C17 witness: the command for 2024-03-05 14:07:09 is about to be written
C17_Witness ==
  /\ pc["clock"] = "write"
  /\ wallClock = [year |-> 2024, month |-> 3, day |-> 5,
                  hour |-> 14, minute |-> 7, second |-> 9]
  /\ cmd = <<"<","S","E","T","D","A","T","E","T","I","M","E",
             "1","8","0","3","0","5","0","E","0","7","0","9",">",">">>

\* C18: a thread holds the lock only while it is at the write inside its with
\* block, so not while it sleeps, waits for a reply or handles an exception,
\* and not after it has ended; whoever holds the lock can release it; and a
\* task that waits for the lock gets it.
C18_LockReleased ==
  /\ [](\A t \in Tasks : lock = t => pc[t] = "write")
  /\ [](lock = "main" => pc["main"] \in {"ver_reset", "ver_query", "ser_query"})
  /\ [](lock \in Tasks => ENABLED (ClockWrite \/ BattWrite \/ CpmWrite))
  /\ \A t \in Tasks : (pc[t] = "acquire") ~> (pc[t] = "write")

\* C18 witness: the clock task's write has raised and ended the task, the
\* battery task holds the lock since and the count task waits for it
C18_Witness ==
  /\ pc["clock"] = "dead"
  /\ lock = "batt"
  /\ pc["cpm"] = "acquire"

\* this step ends a battery cycle that failed
BattFails ==
  /\ pc'["batt"] = "head"
  /\ \/ pc["batt"] = "except"
     \/ /\ pc["batt"] = "decode"
        /\ (Len(battResp) = 0 \/ battResp[1].v > 50)

\* C19: a battery cycle that ends with an empty read, a byte above 50 or an
\* exception sets the shared value to 0, whatever it was; while the latest
\* completed cycle is a failed one the shared value is 0 and every row
\* appended carries 0.00.
C19_FailureResets ==
  /\ [][BattFails => lastBatt' = 0]_vars
  /\ [](battLast.kind \in {"short", "range", "error"} => lastBatt = 0)
  /\ [][(Appends /\ battLast.kind \in {"short", "range", "error"}) =>
          LastRow(csv').batt = 0]_vars

\* C19 witness: 3.3 V was stored, the next cycle read a byte above 50, and a
\* row with 0.00 was appended after that
C19_Witness ==
  /\ lastValid = 33
  /\ battLast.kind = "range"
  /\ lastBatt = 0
  /\ Len(NewRows) = 1
  /\ NewRows[1].batt = 0
  /\ pc["cpm"] = "head"

====
